---- MODULE Spec2Model ----
(***************************************************************************)
(* A model of rayleigh.py: the catalog accessors of Client, Device and     *)
(* DevicesList with their cached_property memos, and SensorList.get_data   *)
(* (query construction, transport request, reshaping into the long-format  *)
(* table).                                                                 *)
(*                                                                         *)
(* Strings are sequences of code points, so that str.join, f-strings and   *)
(* the string ordering used by sort_index are computed, not assumed.       *)
(* A Device is identified by its id (params carry nothing else the code    *)
(* reads); a Sensor is the record [device, id].                            *)
(***************************************************************************)
EXTENDS Integers, Sequences, FiniteSets

VARIABLES devicesCache, sensorsCache, last

vars == <<devicesCache, sensorsCache, last>>

(***************************************************************************)
(* Bounds of the model.                                                    *)
(***************************************************************************)
\* longest identifier filter passed to get_devices / get_sensors
MaxIds == 2
\* most sensors in the SensorList a time-series fetch is invoked on
MaxSensors == 2
\* most value slots per record of a series
MaxArity == 2

(***************************************************************************)
(* Identifiers and small input sets.                                       *)
(***************************************************************************)
\* "A", "B"
DeviceIds == {<<65>>, <<66>>}
\* "e", "p": the sensor identifiers the catalog of a device is drawn from
CatalogSensorIds == {<<101>>, <<112>>}
\* "p", "p_0": the sensor identifiers of time-series requests
SensorIds == {<<112>>, <<112, 95, 48>>}
\* the timestamps of records, in epoch milliseconds
Times == {1000, 2000}

Range(s) == {s[i] : i \in 1..Len(s)}

NoDupSeqs(S) ==
    {s \in UNION {[1..n -> S] : n \in 0..Cardinality(S)} :
        \A i, j \in 1..Len(s) : i # j => s[i] # s[j]}

SeqsUpTo(S, n) == UNION {[1..m -> S] : m \in 0..n}

(***************************************************************************)
(* String helpers.                                                         *)
(***************************************************************************)
RECURSIVE Digits(_)
\* f"{i}" for a natural number i
Digits(n) ==
    IF n < 10 THEN <<48 + n>> ELSE Digits(n \div 10) \o <<48 + (n % 10)>>

RECURSIVE Join(_, _)
\* sep.join(parts)
Join(sep, parts) ==
    IF parts = <<>> THEN <<>>
    ELSE IF Len(parts) = 1 THEN parts[1]
    ELSE parts[1] \o sep \o Join(sep, Tail(parts))

RECURSIVE StrLess(_, _)
\* Python's a < b on str: lexicographic by code point
StrLess(a, b) ==
    IF b = <<>> THEN FALSE
    ELSE IF a = <<>> THEN TRUE
    ELSE IF a[1] # b[1] THEN a[1] < b[1]
    ELSE StrLess(Tail(a), Tail(b))

\* x in xs, for a list xs
InList(x, xs) == \E i \in 1..Len(xs) : xs[i] = x

(***************************************************************************)
(* Transport (Client.request): the remote answers a request with a JSON    *)
(* body, or the request raises (raise_for_status, connectivity).           *)
(***************************************************************************)
Failure == [ok |-> FALSE, body |-> <<>>]

\* the bodies of "devices": the account's devices, identifiers unique
DevicesResponses ==
    {Failure} \cup {[ok |-> TRUE, body |-> c] : c \in NoDupSeqs(DeviceIds)}

\* the bodies of "devices/{id}": the device's sensors, identifiers unique (dict keys)
SensorsResponses ==
    {Failure} \cup {[ok |-> TRUE, body |-> c] : c \in NoDupSeqs(CatalogSensorIds)}

\* the answers a call may draw: none is drawn when the memo is already set, since
\* no request is made then
Answers(cache, responses) == IF cache.loaded THEN {Failure} ELSE responses

\* "devices"
DevicesPath == <<100, 101, 118, 105, 99, 101, 115>>

\* f"devices/{self.id}"
SensorsPath(device_id) == DevicesPath \o <<47>> \o device_id

(***************************************************************************)
(* cached_property: nothing stored until the getter returns.               *)
(***************************************************************************)
NotLoaded == [loaded |-> FALSE, value |-> <<>>]

Loaded(v) == [loaded |-> TRUE, value |-> v]

\* what a call yields: outcome "ok" or the exception raised, the value returned,
\* the transport requests issued, and the memo afterwards
Ret(outcome, value, requests, cache) ==
    [outcome |-> outcome, value |-> value, requests |-> requests, cache |-> cache]

(***************************************************************************)
(* Client                                                                  *)
(***************************************************************************)
\* a faulty Client.devices that fetches on every access (no memo)
Client_devices_nomemo(cache, resp) ==
    IF resp.ok
    THEN Ret("ok", resp.body, <<DevicesPath>>, Loaded(resp.body))
    ELSE Ret("HTTPError", <<>>, <<DevicesPath>>, cache)

\* Client.devices
Client_devices(cache, resp) ==
    IF cache.loaded
    THEN Ret("ok", cache.value, <<>>, cache)
    ELSE IF resp.ok
    THEN Ret("ok", resp.body, <<DevicesPath>>, Loaded(resp.body))
    ELSE Ret("HTTPError", <<>>, <<DevicesPath>>, cache)

\* a faulty Client.get_devices that keeps the order of device_ids
Client_get_devices_idorder(cache, device_ids, resp) ==
    LET r == Client_devices(cache, resp) IN
    IF r.outcome # "ok" THEN r
    ELSE IF device_ids = <<>> THEN r
    ELSE [r EXCEPT !.value = SelectSeq(device_ids, LAMBDA d : InList(d, r.value))]

\* a faulty Client.get_devices whose empty filter selects nothing
Client_get_devices_nodefault(cache, device_ids, resp) ==
    LET r == Client_devices(cache, resp) IN
    IF r.outcome # "ok" THEN r
    ELSE [r EXCEPT !.value = SelectSeq(r.value, LAMBDA d : InList(d, device_ids))]

\* Client.get_devices
Client_get_devices(cache, device_ids, resp) ==
    LET r == Client_devices(cache, resp) IN
    IF r.outcome # "ok" THEN r
    ELSE IF device_ids = <<>> THEN r
    ELSE [r EXCEPT !.value = SelectSeq(r.value, LAMBDA d : InList(d, device_ids))]

\* a faulty Client.get_device that lets the IndexError out
Client_get_device_nocatch(cache, device_id, resp) ==
    LET r == Client_get_devices(cache, <<device_id>>, resp) IN
    IF r.outcome # "ok" THEN r
    ELSE IF r.value = <<>>
    THEN [r EXCEPT !.outcome = "IndexError"]
    ELSE [r EXCEPT !.value = <<r.value[1]>>]

\* Client.get_device; the value is the one device returned, as a list of one
Client_get_device(cache, device_id, resp) ==
    LET r == Client_get_devices(cache, <<device_id>>, resp) IN
    IF r.outcome # "ok" THEN r
    ELSE IF r.value = <<>>
    THEN [r EXCEPT !.outcome = "KeyError: device not found"]
    ELSE [r EXCEPT !.value = <<r.value[1]>>]

(***************************************************************************)
(* Device, Sensor                                                          *)
(***************************************************************************)
Sensor(sensor_id, device) == [device |-> device, id |-> sensor_id]

\* Device.sensors; cache is the memo of this device
Device_sensors(device, cache, resp) ==
    IF cache.loaded
    THEN Ret("ok", cache.value, <<>>, cache)
    ELSE IF resp.ok
    THEN LET sensors == [i \in 1..Len(resp.body) |-> Sensor(resp.body[i], device)]
         IN  Ret("ok", sensors, <<SensorsPath(device)>>, Loaded(sensors))
    ELSE Ret("HTTPError", <<>>, <<SensorsPath(device)>>, cache)

\* Device.get_sensors
Device_get_sensors(device, cache, sensor_ids, resp) ==
    LET r == Device_sensors(device, cache, resp) IN
    IF r.outcome # "ok" THEN r
    ELSE IF sensor_ids = <<>> THEN r
    ELSE [r EXCEPT !.value = SelectSeq(r.value, LAMBDA s : InList(s.id, sensor_ids))]

\* Device.get_sensor; the value is the one sensor returned, as a list of one
Device_get_sensor(device, cache, sensor_id, resp) ==
    LET r == Device_get_sensors(device, cache, <<sensor_id>>, resp) IN
    IF r.outcome # "ok" THEN r
    ELSE IF r.value = <<>>
    THEN [r EXCEPT !.outcome = "KeyError: sensor not found"]
    ELSE [r EXCEPT !.value = <<r.value[1]>>]

(***************************************************************************)
(* DevicesList                                                             *)
(***************************************************************************)
RECURSIVE chain_sensors(_, _, _, _, _, _)
\* the argument list of chain(*( ... for device in self)): each device's list is
\* built in turn, the first request that raises ends the call; caches is the
\* memo of every device, resps the answer the remote would give for each
chain_sensors(devices, caches, sensor_ids, resps, value, requests) ==
    IF devices = <<>> THEN Ret("ok", value, requests, caches)
    ELSE LET device == Head(devices)
             r == IF sensor_ids = <<>>
                  THEN Device_sensors(device, caches[device], resps[device])
                  ELSE Device_get_sensors(device, caches[device], sensor_ids,
                                          resps[device])
             caches2 == [caches EXCEPT ![device] = r.cache]
         IN  IF r.outcome # "ok"
             THEN Ret(r.outcome, <<>>, requests \o r.requests, caches2)
             ELSE chain_sensors(Tail(devices), caches2, sensor_ids, resps,
                                value \o r.value, requests \o r.requests)

\* a faulty DevicesList.get_sensors that resolves each identifier once for the
\* whole list instead of once per device
DevicesList_get_sensors_once(self, caches, sensor_ids, resps) ==
    LET r == chain_sensors(self, caches, sensor_ids, resps, <<>>, <<>>)
        first(i) == \A j \in 1..(i - 1) : r.value[j].id # r.value[i].id
        kept == SelectSeq([i \in 1..Len(r.value) |-> i], first)
    IN  [r EXCEPT !.value = [x \in 1..Len(kept) |-> r.value[kept[x]]]]

\* DevicesList.get_sensors
DevicesList_get_sensors(self, caches, sensor_ids, resps) ==
    chain_sensors(self, caches, sensor_ids, resps, <<>>, <<>>)

(***************************************************************************)
(* SensorList.get_data                                                     *)
(***************************************************************************)
RECURSIVE to_query(_, _)
\* the defaultdict(list) filled by the loop over self: one group per device, in
\* order of first insertion, each with its sensor ids in order of appending
to_query(self, groups) ==
    IF self = <<>> THEN groups
    ELSE LET sensor == Head(self)
             at == {i \in 1..Len(groups) : groups[i].device = sensor.device}
         IN  IF at = {}
             THEN to_query(Tail(self),
                           Append(groups, [device |-> sensor.device,
                                           sensor_ids |-> <<sensor.id>>]))
             ELSE LET i == CHOOSE i \in at : TRUE
                  IN  to_query(Tail(self),
                               [groups EXCEPT ![i].sensor_ids = Append(@, sensor.id)])

\* ",".join(f"{device_id}:({','.join(sensor_ids)})" for ... in to_query.items())
query_string(groups) ==
    Join(<<44>>, [i \in 1..Len(groups) |->
                    groups[i].device \o <<58, 40>>
                        \o Join(<<44>>, groups[i].sensor_ids) \o <<41>>])

\* f"data/{query})"
data_path(query) == <<100, 97, 116, 97, 47>> \o query \o <<41>>

\* "datetime"
DatetimeHeader == <<100, 97, 116, 101, 116, 105, 109, 101>>

\* the entries of the nested response dict, in iteration order, with the empty
\* series dropped
loop_through_sensors(data) == SelectSeq(data, LAMBDA e : e.sensor_data # <<>>)

\* a faulty get_column_headers that numbers the value slots from 1
get_column_headers_from1(sensor_id, sensor_data) ==
    LET num_data_columns == Len(sensor_data[1]) - 1 IN
    IF num_data_columns = 1
    THEN <<DatetimeHeader, sensor_id>>
    ELSE <<DatetimeHeader>>
            \o [i \in 1..num_data_columns |-> sensor_id \o <<95>> \o Digits(i)]

get_column_headers(sensor_id, sensor_data) ==
    LET num_data_columns == Len(sensor_data[1]) - 1 IN
    IF num_data_columns = 1
    THEN <<DatetimeHeader, sensor_id>>
    ELSE <<DatetimeHeader>>
            \o [i \in 1..num_data_columns |-> sensor_id \o <<95>> \o Digits(i - 1)]

\* pd.DataFrame(sensor_data, columns=headers).melt(id_vars="datetime",
\* var_name="sensor").assign(device=device_id): the value columns one after the
\* other, each with one row per record in record order
melt(device_id, sensor_data, headers) ==
    LET n == Len(sensor_data)
        k == Len(headers) - 1
    IN  [x \in 1..(n * k) |->
            LET c == ((x - 1) \div n) + 1
                r == ((x - 1) % n) + 1
            IN  [device |-> device_id, sensor |-> headers[c + 1],
                 datetime |-> sensor_data[r][1], value |-> sensor_data[r][c + 1]]]

RECURSIVE concat(_)
\* pd.concat(frames)
concat(frames) ==
    IF frames = <<>> THEN <<>> ELSE Head(frames) \o concat(Tail(frames))

\* pd.to_datetime(ms, unit="ms"): a Timestamp, held as nanoseconds since the epoch
to_datetime(ms) == ms * 1000000

\* the order of the index tuples (device, sensor, datetime)
IndexLess(a, b) ==
    IF a.device # b.device THEN StrLess(a.device, b.device)
    ELSE IF a.sensor # b.sensor THEN StrLess(a.sensor, b.sensor)
    ELSE a.datetime < b.datetime

RECURSIVE insert_sorted(_, _)
insert_sorted(rows, row) ==
    IF rows = <<>> THEN <<row>>
    ELSE IF IndexLess(row, rows[Len(rows)])
    THEN Append(insert_sorted(SubSeq(rows, 1, Len(rows) - 1), row), rows[Len(rows)])
    ELSE Append(rows, row)

RECURSIVE sorted_from(_, _)
sorted_from(done, rows) ==
    IF rows = <<>> THEN done
    ELSE sorted_from(insert_sorted(done, Head(rows)), Tail(rows))

\* set_index(["device", "sensor", "datetime"]).sort_index(): ascending by the index
\* tuples, rows of equal index in their order of arrival
sort_index(rows) == sorted_from(<<>>, rows)

\* a faulty reshape that returns an empty table when no series has data
reshape_empty_table(data) ==
    LET series == loop_through_sensors(data)
        frames == [i \in 1..Len(series) |->
                     melt(series[i].device, series[i].sensor_data,
                          get_column_headers(series[i].sensor, series[i].sensor_data))]
        rows == concat(frames)
        stamped == [i \in 1..Len(rows) |-> [rows[i] EXCEPT !.datetime = to_datetime(@)]]
    IN  [outcome |-> "ok", value |-> sort_index(stamped)]

\* what get_data does with the response body
reshape(data) ==
    LET series == loop_through_sensors(data)
        frames == [i \in 1..Len(series) |->
                     melt(series[i].device, series[i].sensor_data,
                          get_column_headers(series[i].sensor, series[i].sensor_data))]
    IN  IF frames = <<>>
        THEN [outcome |-> "KeyError: no data for this device/sensor/datetime combination",
              value |-> <<>>]
        ELSE LET rows == concat(frames)
                 stamped == [i \in 1..Len(rows) |->
                               [rows[i] EXCEPT !.datetime = to_datetime(@)]]
             IN  [outcome |-> "ok", value |-> sort_index(stamped)]

\* SensorList.get_data(from_date, to_date), for dates pd.to_datetime accepts
SensorList_get_data(self, resp) ==
    IF self = <<>>
    THEN [outcome |-> "IndexError", value |-> <<>>, requests |-> <<>>]
    ELSE LET path == data_path(query_string(to_query(self, <<>>))) IN
         IF ~resp.ok
         THEN [outcome |-> "HTTPError", value |-> <<>>, requests |-> <<path>>]
         ELSE LET t == reshape(resp.body)
              IN  [outcome |-> t.outcome, value |-> t.value, requests |-> <<path>>]

(***************************************************************************)
(* Time-series inputs: a SensorList, and the answer of the remote to its   *)
(* request. The remote answers for the (device, sensor) pairs asked for,   *)
(* in the order asked, may leave pairs out, and gives each series a list   *)
(* of records [timestamp, value_1 .. value_k] of one arity k >= 1.         *)
(***************************************************************************)
Sensors == {Sensor(s, d) : s \in SensorIds, d \in DeviceIds}

SensorLists == SeqsUpTo(Sensors, MaxSensors)

\* the value in slot i of the j-th record: every cell of a series is distinct
Reading(j, i) == 10 * j + i

RecordLists ==
    {[j \in 1..Len(ts) |-> <<ts[j]>> \o [i \in 1..k |-> Reading(j, i - 1)]] :
        ts \in SeqsUpTo(Times, Cardinality(Times)), k \in 1..MaxArity}

RECURSIVE Dedup(_, _)
Dedup(s, seen) ==
    IF s = <<>> THEN <<>>
    ELSE IF Head(s) \in seen THEN Dedup(Tail(s), seen)
    ELSE <<Head(s)>> \o Dedup(Tail(s), seen \cup {Head(s)})

\* the keys of the response: for each device in order of first appearance in the
\* list, its sensors in order of first appearance
AskedFor(self) ==
    LET groups == to_query(self, <<>>)
        keys == concat([i \in 1..Len(groups) |->
                          [j \in 1..Len(groups[i].sensor_ids) |->
                              [device |-> groups[i].device,
                               sensor |-> groups[i].sensor_ids[j]]]])
    IN  Dedup(keys, {})

DataResponses(self) ==
    LET keys == AskedFor(self) IN
    {Failure} \cup
    {[ok |-> TRUE,
      body |-> LET kept == SelectSeq([i \in 1..Len(keys) |-> i], LAMBDA i : i \in present)
               IN  [x \in 1..Len(kept) |->
                      [device |-> keys[kept[x]].device, sensor |-> keys[kept[x]].sensor,
                       sensor_data |-> lists[kept[x]]]]] :
        present \in SUBSET (1..Len(keys)),
        lists \in [1..Len(keys) -> RecordLists]}


(***************************************************************************)
(* State: the Client's memo of `devices`, each Device's memo of `sensors`, *)
(* and the last call made with what it returned.                           *)
(***************************************************************************)
Call(op, self, ids, r) ==
    [op |-> op, self |-> self, ids |-> ids, outcome |-> r.outcome,
     value |-> r.value, requests |-> r.requests, data |-> Failure]

Init ==
    /\ devicesCache = NotLoaded
    /\ sensorsCache = [d \in DeviceIds |-> NotLoaded]
    /\ last = [op |-> "new", self |-> <<>>, ids |-> <<>>, outcome |-> "ok",
               value |-> <<>>, requests |-> <<>>, data |-> Failure]

\* the Device objects that exist: those of the memoized DevicesList
Devices == IF devicesCache.loaded THEN Range(devicesCache.value) ELSE {}

IdLists(S) == SeqsUpTo(S, MaxIds)

\* client.devices
GetDevicesProperty ==
    \E resp \in Answers(devicesCache, DevicesResponses) :
        LET r == Client_devices(devicesCache, resp) IN
        /\ devicesCache' = r.cache
        /\ last' = Call("devices", <<>>, <<>>, r)
        /\ UNCHANGED sensorsCache

\* client.get_devices(device_ids)
GetDevices ==
    \E device_ids \in IdLists(DeviceIds), resp \in Answers(devicesCache, DevicesResponses) :
        LET r == Client_get_devices(devicesCache, device_ids, resp) IN
        /\ devicesCache' = r.cache
        /\ last' = Call("get_devices", <<>>, device_ids, r)
        /\ UNCHANGED sensorsCache

\* client.get_device(device_id)
GetDevice ==
    \E device_id \in DeviceIds, resp \in Answers(devicesCache, DevicesResponses) :
        LET r == Client_get_device(devicesCache, device_id, resp) IN
        /\ devicesCache' = r.cache
        /\ last' = Call("get_device", <<>>, <<device_id>>, r)
        /\ UNCHANGED sensorsCache

\* device.sensors
GetSensorsProperty ==
    \E device \in Devices :
    \E resp \in Answers(sensorsCache[device], SensorsResponses) :
        LET r == Device_sensors(device, sensorsCache[device], resp) IN
        /\ sensorsCache' = [sensorsCache EXCEPT ![device] = r.cache]
        /\ last' = Call("sensors", <<device>>, <<>>, r)
        /\ UNCHANGED devicesCache

\* device.get_sensors(sensor_ids)
GetSensors ==
    \E device \in Devices, sensor_ids \in IdLists(CatalogSensorIds) :
    \E resp \in Answers(sensorsCache[device], SensorsResponses) :
        LET r == Device_get_sensors(device, sensorsCache[device], sensor_ids, resp) IN
        /\ sensorsCache' = [sensorsCache EXCEPT ![device] = r.cache]
        /\ last' = Call("get_sensors", <<device>>, sensor_ids, r)
        /\ UNCHANGED devicesCache

\* device.get_sensor(sensor_id)
GetSensor ==
    \E device \in Devices, sensor_id \in CatalogSensorIds :
    \E resp \in Answers(sensorsCache[device], SensorsResponses) :
        LET r == Device_get_sensor(device, sensorsCache[device], sensor_id, resp) IN
        /\ sensorsCache' = [sensorsCache EXCEPT ![device] = r.cache]
        /\ last' = Call("get_sensor", <<device>>, <<sensor_id>>, r)
        /\ UNCHANGED devicesCache

\* devices_list.get_sensors(sensor_ids), for a DevicesList of existing devices;
\* an answer is drawn for each device of the list whose memo is not set
ListGetSensors ==
    \E self \in NoDupSeqs(Devices), sensor_ids \in IdLists(CatalogSensorIds) :
    \E answers \in [{d \in Range(self) : ~sensorsCache[d].loaded} -> SensorsResponses] :
        LET resps == [d \in DeviceIds |->
                        IF d \in DOMAIN answers THEN answers[d] ELSE Failure]
            r == DevicesList_get_sensors(self, sensorsCache, sensor_ids, resps)
        IN  /\ sensorsCache' = r.cache
            /\ last' = Call("list_get_sensors", self, sensor_ids, r)
            /\ UNCHANGED devicesCache

Next ==
    \/ GetDevicesProperty
    \/ GetDevices
    \/ GetDevice
    \/ GetSensorsProperty
    \/ GetSensors
    \/ GetSensor
    \/ ListGetSensors

Spec == Init /\ [][Next]_vars

(***************************************************************************)
(* Time-series fetch: the list and the answer are drawn, then the call is  *)
(* made.                                                                   *)
(***************************************************************************)
InitData ==
    /\ devicesCache = NotLoaded
    /\ sensorsCache = [d \in DeviceIds |-> NotLoaded]
    /\ \E self \in SensorLists :
       \E resp \in DataResponses(self) :
          last = [op |-> "get_data", self |-> self, ids |-> <<>>, outcome |-> "calling",
                  value |-> <<>>, requests |-> <<>>, data |-> resp]

\* sensor_list.get_data(from_date, to_date)
GetData ==
    /\ last.op = "get_data"
    /\ last.outcome = "calling"
    /\ LET r == SensorList_get_data(last.self, last.data) IN
       last' = [last EXCEPT !.outcome = r.outcome, !.value = r.value,
                            !.requests = r.requests]
    /\ UNCHANGED <<devicesCache, sensorsCache>>

NextData == GetData

SpecData == InitData /\ [][NextData]_vars

(***************************************************************************)
(* Properties                                                              *)
(***************************************************************************)
RECURSIVE Flatten(_)
\* the lists of a list, one after the other
Flatten(lists) ==
    IF lists = <<>> THEN <<>> ELSE Flatten(SubSeq(lists, 1, Len(lists) - 1)) \o lists[Len(lists)]

\* the number of positions of seq holding x
Count(seq, x) == Cardinality({i \in 1..Len(seq) : seq[i] = x})

\* the position of x in a list without repeats
IndexOf(seq, x) == CHOOSE i \in 1..Len(seq) : seq[i] = x

\* a call that raised no transport error either found its catalog memoized or
\* stored it: these are the calls a catalog claim speaks about
Answered(op) == last.op = op /\ last.outcome # "HTTPError"

\* C1: get_devices(ids) with a non-empty ids returns exactly the catalog devices
\* whose identifier is in ids, each once, in catalog order; identifiers of ids
\* that match no device are left out and raise nothing.
C1_GetDevicesFilters ==
    (Answered("get_devices") /\ last.ids # <<>>) =>
        LET catalog == devicesCache.value
            got == last.value
        IN  /\ last.outcome = "ok"
            /\ \A d \in DeviceIds :
                  Count(got, d) = IF InList(d, catalog) /\ InList(d, last.ids)
                                  THEN 1 ELSE 0
            /\ \A i, j \in 1..Len(got) :
                  i < j => IndexOf(catalog, got[i]) < IndexOf(catalog, got[j])

\* C1 witness: both devices are returned, in the catalog's order, which is the
\* reverse of the order of ids
C1_Witness ==
    /\ last.op = "get_devices"
    /\ last.outcome = "ok"
    /\ Len(last.ids) = 2
    /\ last.value = <<last.ids[2], last.ids[1]>>
    /\ last.ids[1] # last.ids[2]

\* the entries of the response of a completed time-series fetch
Returned == last.op = "get_data" /\ last.outcome \notin {"calling", "IndexError", "HTTPError"}

NoDataError == "KeyError: no data for this device/sensor/datetime combination"

\* the rows a series stands for: number of records times number of value slots
Cells(e) == IF e.sensor_data = <<>> THEN 0
            ELSE Len(e.sensor_data) * (Len(e.sensor_data[1]) - 1)

RECURSIVE TotalCells(_)
TotalCells(entries) ==
    IF entries = <<>> THEN 0 ELSE Cells(Head(entries)) + TotalCells(Tail(entries))

\* C2: get_data raises the no-data error exactly when every entry of the response
\* has an empty record list (a response without entries included); otherwise it
\* returns a table, to which the empty series add no row.
C2_NoDataIffAllEmpty ==
    Returned =>
        LET entries == last.data.body
            allEmpty == \A i \in 1..Len(entries) : entries[i].sensor_data = <<>>
        IN  /\ (last.outcome = NoDataError) <=> allEmpty
            /\ ~allEmpty => /\ last.outcome = "ok"
                            /\ Len(last.value) = TotalCells(entries)

\* C2 witness: one series is empty, another is not, and a table is returned
C2_Witness ==
    /\ Returned
    /\ last.outcome = "ok"
    /\ \E i, j \in 1..Len(last.data.body) :
          /\ last.data.body[i].sensor_data = <<>>
          /\ last.data.body[j].sensor_data # <<>>
    /\ last.value # <<>>

\* C3 (as claimed): get_data on an empty SensorList fails with an invalid-argument
\* error (ValueError), not an index error, and issues no request.
C3_EmptyListIsInvalidArgument ==
    (last.op = "get_data" /\ last.self = <<>> /\ last.outcome # "calling") =>
        /\ last.outcome = "ValueError"
        /\ last.requests = <<>>

\* the name of value slot i (from 0) of a sensor with k slots
ColumnName(sensor_id, k, i) ==
    IF k = 1 THEN sensor_id ELSE sensor_id \o <<95, 48 + i>>

\* the rows a series stands for, record by record and slot by slot
RowsOf(e) ==
    LET n == Len(e.sensor_data)
        k == Len(e.sensor_data[1]) - 1
    IN  [x \in 1..(n * k) |->
            LET r == ((x - 1) \div k) + 1
                i == (x - 1) % k
            IN  [device |-> e.device, sensor |-> ColumnName(e.sensor, k, i),
                 datetime |-> e.sensor_data[r][1] * 1000000,
                 value |-> e.sensor_data[r][i + 2]]]

\* the rows all the non-empty series of the response stand for
AllRows(entries) ==
    Flatten([i \in 1..Len(entries) |->
              IF entries[i].sensor_data = <<>> THEN <<>> ELSE RowsOf(entries[i])])

\* C4: for series of uniform arity k >= 1, the table holds, for each series, one
\* row per record and value slot: the series' device, the column name (the sensor
\* id for k = 1, {sensor_id}_{i} for slot i otherwise), the record's timestamp and
\* the value of the slot; and it holds nothing else.
C4_RowsPerRecordAndSlot ==
    (Returned /\ last.outcome = "ok") =>
        LET want == AllRows(last.data.body) IN
        /\ Len(last.value) = Len(want)
        /\ \A i \in 1..Len(want) : Count(last.value, want[i]) = Count(want, want[i])

\* C4 witness: a series of two records with two value slots each was reshaped
C4_Witness ==
    /\ Returned
    /\ last.outcome = "ok"
    /\ \E i \in 1..Len(last.data.body) :
          /\ Len(last.data.body[i].sensor_data) = 2
          /\ Len(last.data.body[i].sensor_data[1]) = 3
    /\ Len(last.value) >= 4

\* no timestamp occurs twice in one sensor's record list
UniqueTimestamps(entries) ==
    \A e \in Range(entries) :
        \A i, j \in 1..Len(e.sensor_data) :
            i # j => e.sensor_data[i][1] # e.sensor_data[j][1]

IndexOfRow(row) == <<row.device, row.sensor, row.datetime>>

\* C5 (as claimed): when timestamps are unique within each sensor's record list,
\* the table is sorted ascending by (device, sensor_column, timestamp) and no two
\* rows share an index tuple.
C5_SortedWithoutDuplicates ==
    (Returned /\ last.outcome = "ok" /\ UniqueTimestamps(last.data.body)) =>
        /\ \A i \in 1..(Len(last.value) - 1) :
              ~IndexLess(last.value[i + 1], last.value[i])
        /\ \A i, j \in 1..Len(last.value) :
              i # j => IndexOfRow(last.value[i]) # IndexOfRow(last.value[j])

\* the sensor ids of the list that belong to a device, in list order
SensorIdsOf(self, device) ==
    LET mine == SelectSeq(self, LAMBDA s : s.device = device)
    IN  [i \in 1..Len(mine) |-> mine[i].id]

\* device_id:(s1,s2,...) for each device of the list in order of first appearance
WireQuery(self) ==
    LET devices == Dedup([i \in 1..Len(self) |-> self[i].device], {})
    IN  Join(<<44>>, [i \in 1..Len(devices) |->
                        devices[i] \o <<58, 40>>
                            \o Join(<<44>>, SensorIdsOf(self, devices[i])) \o <<41>>])

\* C6 (as claimed): get_data on a non-empty list issues exactly one request, whose
\* path is "data/" followed by the query string and nothing else.
C6_PathIsDataSlashQuery ==
    (last.op = "get_data" /\ last.self # <<>> /\ last.outcome # "calling") =>
        last.requests = << <<100, 97, 116, 97, 47>> \o WireQuery(last.self) >>

\* C7: once the `devices` request has succeeded, no call issues it again, the memo
\* never changes, and `devices` returns the memoized list; likewise for each
\* device's sensors request and memo.
C7_MemoizedOnce ==
    [][ /\ devicesCache.loaded =>
            /\ devicesCache' = devicesCache
            /\ ~InList(DevicesPath, last'.requests)
            /\ last'.op = "devices" =>
                  (last'.outcome = "ok" /\ last'.value = devicesCache.value)
        /\ \A d \in DeviceIds :
              sensorsCache[d].loaded =>
                  /\ sensorsCache'[d] = sensorsCache[d]
                  /\ ~InList(SensorsPath(d), last'.requests)
                  /\ (last'.op = "sensors" /\ last'.self = <<d>>) =>
                        (last'.outcome = "ok" /\ last'.value = sensorsCache[d].value)
      ]_vars

\* C7 witness: `devices` was answered from the memo, without a request, while a
\* device's sensors are memoized too
C7_Witness ==
    /\ last.op = "devices"
    /\ last.requests = <<>>
    /\ last.value # <<>>
    /\ \E d \in DeviceIds : sensorsCache[d].loaded /\ sensorsCache[d].value # <<>>

\* C8: get_device(id) and get_sensor(id) return the one catalog entry whose
\* identifier is id when there is one and raise the not-found error when there is
\* none; get_devices and get_sensors never raise it.
C8_SingleRaisesBatchDoesNot ==
    /\ Answered("get_device") =>
          IF InList(last.ids[1], devicesCache.value)
          THEN last.outcome = "ok" /\ last.value = <<last.ids[1]>>
          ELSE last.outcome = "KeyError: device not found" /\ last.value = <<>>
    /\ Answered("get_sensor") =>
          LET device == last.self[1]
              catalog == sensorsCache[device].value
          IN  IF \E i \in 1..Len(catalog) : catalog[i].id = last.ids[1]
              THEN /\ last.outcome = "ok"
                   /\ last.value = <<[device |-> device, id |-> last.ids[1]]>>
              ELSE last.outcome = "KeyError: sensor not found" /\ last.value = <<>>
    /\ last.op \in {"get_devices", "get_sensors", "list_get_sensors"} =>
          last.outcome \in {"ok", "HTTPError"}

\* C8 witness: get_device raised not-found for an identifier missing from a
\* catalog that is not empty
C8_Witness ==
    /\ last.op = "get_device"
    /\ last.outcome = "KeyError: device not found"
    /\ devicesCache.loaded
    /\ devicesCache.value # <<>>

Matching(device, ids) ==
    SelectSeq(sensorsCache[device].value, LAMBDA s : s.id \in Range(ids))

\* C10: DevicesList.get_sensors(ids) with a non-empty ids is, device after device in
\* list order, what each device's catalog holds of ids; an identifier found on n
\* devices of the list is returned n times, once bound to each, and a device
\* without a match adds nothing and raises nothing.
C10_ListGetSensorsPerDevice ==
    (Answered("list_get_sensors") /\ last.ids # <<>>) =>
        /\ last.outcome = "ok"
        /\ last.value = Flatten([i \in 1..Len(last.self) |->
                                   Matching(last.self[i], last.ids)])
        /\ \A id \in Range(last.ids) :
              LET holders == {d \in Range(last.self) :
                                \E s \in Range(sensorsCache[d].value) : s.id = id}
              IN  /\ Count([i \in 1..Len(last.value) |-> last.value[i].id], id)
                        = Cardinality(holders)
                  /\ \A d \in holders : InList([device |-> d, id |-> id], last.value)

\* C10 witness: one identifier was found on both devices of the list
C10_Witness ==
    /\ last.op = "list_get_sensors"
    /\ last.outcome = "ok"
    /\ Len(last.self) = 2
    /\ \E i, j \in 1..Len(last.value) :
          /\ last.value[i].id = last.value[j].id
          /\ last.value[i].device # last.value[j].device

====
